---- MODULE Spec2Model ----
(***************************************************************************)
(* Model of the review reconciliation pipeline:                            *)
(*   src/src/transform_raw_data.py  (catalog + review transform)           *)
(*   src/src/serving_layer.py       (App KPI and Daily Metric tables)      *)
(* A run is: transform main() (transform_apps_metadata, transform_reviews) *)
(* followed by serving main().  Tables are sequences of records, a cell is *)
(* a string, NA stands for pandas' missing value (NaN / None / pd.NA).     *)
(***************************************************************************)
EXTENDS Integers, Sequences, FiniteSets, TLC

\* ------------------------------------------------------------------
\* Bounds of the explored inputs
\* ------------------------------------------------------------------
MaxReviews == 2      \* review rows over all review files of one run
MaxCat == 2          \* rows of the catalog metadata file
SeriesLen == 10      \* days of the longest daily series

\* ------------------------------------------------------------------
\* Cells
\* ------------------------------------------------------------------
NA == "<NA>"

\* pandas' read_csv turns these cell texts into NaN (the default list, which
\* holds "", "NULL", "nan", "NA", ...; line 120 names 'NULL' and 'nan' again).
CsvNaTexts == {"", "NULL", "nan", "NA", "NaN", "null", "None", "N/A", "n/a", "<NA>"}

read_csv_cell(text) == IF text \in CsvNaTexts THEN NA ELSE text

\* to_csv writes a missing value as the empty field.
to_csv_cell(v) == IF v = NA THEN "" ELSE v

\* pd.to_numeric(errors='coerce') on the score texts of the explored inputs,
\* in tenths; anything else (NA, "abc") is coerced to NaN (ok = FALSE).
to_numeric(text) ==
    CASE text = "1"   -> [ok |-> TRUE, v |-> 10]
      [] text = "2"   -> [ok |-> TRUE, v |-> 20]
      [] text = "4"   -> [ok |-> TRUE, v |-> 40]
      [] text = "4.5" -> [ok |-> TRUE, v |-> 45]
      [] text = "5"   -> [ok |-> TRUE, v |-> 50]
      [] text = "6"   -> [ok |-> TRUE, v |-> 60]
      [] OTHER        -> [ok |-> FALSE, v |-> 0]

\* The timestamps of the daily series inputs: one per day, on days of
\* January 2024 that leave calendar gaps (the 6th, 9th, 13th, 16th are absent).
SeriesDays == <<3, 4, 5, 7, 8, 10, 11, 12, 14, 15, 17, 18>>
SeriesStamps ==
    <<"2024-01-03 12:00:00", "2024-01-04 12:00:00", "2024-01-05 12:00:00",
      "2024-01-07 12:00:00", "2024-01-08 12:00:00", "2024-01-10 12:00:00",
      "2024-01-11 12:00:00", "2024-01-12 12:00:00", "2024-01-14 12:00:00",
      "2024-01-15 12:00:00", "2024-01-17 12:00:00", "2024-01-18 12:00:00">>

\* pd.to_datetime(format='mixed', errors='coerce') on the timestamp texts of
\* the explored inputs, in hours since 2024-01-00 00:00; anything else is NaT.
to_datetime(text) ==
    CASE text = "2024-01-01 10:00:00" -> [ok |-> TRUE, t |-> 34]
      [] text = "2024-01-01 23:00:00" -> [ok |-> TRUE, t |-> 47]
      [] text = "01/02/2024 09:00"    -> [ok |-> TRUE, t |-> 57]
      [] text = "2024-01-02 09:00:00" -> [ok |-> TRUE, t |-> 57]
      [] \E j \in 1..Len(SeriesStamps) : text = SeriesStamps[j] ->
             [ok |-> TRUE,
              t |-> 24 * SeriesDays[CHOOSE j \in 1..Len(SeriesStamps) :
                                       text = SeriesStamps[j]] + 12]
      [] OTHER                        -> [ok |-> FALSE, t |-> 0]

\* str(Timestamp) as to_csv writes it (REVIEWS_PROCESSED_PATH).
timestamp_text(t) ==
    CASE t = 34 -> "2024-01-01 10:00:00"
      [] t = 47 -> "2024-01-01 23:00:00"
      [] t = 57 -> "2024-01-02 09:00:00"
      [] \E j \in 1..Len(SeriesDays) : t = 24 * SeriesDays[j] + 12 ->
             SeriesStamps[CHOOSE j \in 1..Len(SeriesDays) : t = 24 * SeriesDays[j] + 12]
      [] OTHER  -> "NaT"

\* Series.dt.date: the calendar day of a timestamp.
dt_date(t) == t \div 24

\* Mutant of between_1_5: the upper end is not checked.
MutBetweenOpen(n) == n.ok /\ 10 <= n.v

\* Series.between(1, 5), inclusive on both ends, False on NaN.
between_1_5(n) == n.ok /\ 10 <= n.v /\ n.v <= 50

\* Series.astype(int) on a valid float: truncation.
astype_int(n) == n.v \div 10

\* ------------------------------------------------------------------
\* Sequence helpers
\* ------------------------------------------------------------------
RECURSIVE ConcatAll(_)
ConcatAll(ss) == IF ss = <<>> THEN <<>> ELSE Head(ss) \o ConcatAll(Tail(ss))

Range(s) == {s[i] : i \in 1..Len(s)}

\* DataFrame.drop_duplicates(subset=[key], keep="first"): a row is dropped when
\* an earlier row has the same key; pandas treats missing keys as equal.
RECURSIVE keep_first(_, _, _)
keep_first(rows, key, seen) ==
    IF rows = <<>> THEN <<>>
    ELSE IF Head(rows)[key] \in seen THEN keep_first(Tail(rows), key, seen)
    ELSE <<Head(rows)>> \o keep_first(Tail(rows), key, seen \cup {Head(rows)[key]})

\* Mutants of drop_duplicates: no deduplication; keep="last".
MutKeepAll(rows, key) == rows
MutKeepLast(rows, key) ==
    LET RECURSIVE Rev(_)
        Rev(s) == IF s = <<>> THEN <<>> ELSE Rev(Tail(s)) \o <<Head(s)>>
    IN  Rev(keep_first(Rev(rows), key, {}))
drop_duplicates(rows, key) == keep_first(rows, key, {})

\* Mutant of dedup_catalog: the catalog is not deduplicated.
MutCatalogKeepAll(rows) == rows

\* Catalog uniqueness, line 64.
dedup_catalog(rows) == drop_duplicates(rows, "appId")

\* DataFrame.dropna(how='all'): a row all of whose cells are missing is dropped.
dropna_all(rows) ==
    LET SomeValue(r) == \E c \in DOMAIN r : r[c] # NA
    IN  SelectSeq(rows, SomeValue)

\* pd.read_csv on the rows of a file: every cell text becomes a value.
read_csv(rows) ==
    [i \in 1..Len(rows) |-> [c \in DOMAIN rows[i] |-> read_csv_cell(rows[i][c])]]

\* ------------------------------------------------------------------
\* Schema normalisation (normalize_csv_schema)
\* ------------------------------------------------------------------
mapping ==
    [appId |-> "app_id", appTitle |-> "app_name", review_id |-> "reviewId",
     username |-> "userName", rating |-> "score", review_text |-> "content",
     likes |-> "thumbsUpCount", review_time |-> "at"]

rename_row(r, m) ==
    LET ren(k) == IF k \in DOMAIN m THEN m[k] ELSE k
    IN  [c \in {ren(k) : k \in DOMAIN r} |-> r[CHOOSE k \in DOMAIN r : ren(k) = c]]

normalize_csv_schema(rows) == [i \in 1..Len(rows) |-> rename_row(rows[i], mapping)]

\* Line 123: a source without an app_name column gets one, all missing.
with_app_name(rows) ==
    [i \in 1..Len(rows) |->
        IF "app_name" \in DOMAIN rows[i] THEN rows[i]
        ELSE [c \in DOMAIN rows[i] \cup {"app_name"} |->
                 IF c = "app_name" THEN NA ELSE rows[i][c]]]

\* ------------------------------------------------------------------
\* State
\* ------------------------------------------------------------------
VARIABLES
    meta_file,          \* APPS_UPDATED_PATH: [state, rows]
    review_files,       \* raw_files (line 110), in declaration order: [state, rows]
    pc,                 \* position of the run
    error,              \* the exception that ended a stage, "" if none
    apps_df,            \* result of transform_apps_metadata: [has_cols, rows]
    merged,             \* df after pd.concat (line 126), each row with its position idx
    deduped,            \* df after drop_duplicates (line 144)
    final_df,           \* table returned by transform_reviews (line 154)
    reviews_csv,        \* REVIEWS_PROCESSED_PATH: [exists, rows]
    reviews_df,         \* serving main's reviews_df (lines 85-88)
    app_kpis_csv,       \* APP_LEVEL_KPIS_PATH: [exists, rows]
    daily_metrics_csv,  \* DAILY_METRICS_PATH: [exists, rows]
    daily_metrics_sorted \* the dashboard's daily_metrics_sorted (dashboard.py 109-110)

vars == <<meta_file, review_files, pc, error, apps_df, merged, deduped, final_df,
          reviews_csv, reviews_df, app_kpis_csv, daily_metrics_csv,
          daily_metrics_sorted>>

Sources == 1..4      \* JSONL, BATCH2, DRIFT, DIRTY

NoFile == [exists |-> FALSE, rows |-> <<>>]

\* ------------------------------------------------------------------
\* transform_apps_metadata
\* ------------------------------------------------------------------
\* Lines 52-54: a missing file gives pd.DataFrame(), a frame without columns.
\* Lines 59-64: read, drop all-empty rows, keep the first row of every appId.
\* read_csv raises EmptyDataError on a file of zero bytes.
apps_metadata(file) ==
    CASE file.state = "missing" ->
             [raised |-> "", df |-> [has_cols |-> FALSE, rows |-> <<>>]]
      [] file.state = "zero" ->
             [raised |-> "EmptyDataError", df |-> [has_cols |-> FALSE, rows |-> <<>>]]
      [] OTHER ->
             [raised |-> "",
              df |-> [has_cols |-> TRUE,
                      rows |-> dedup_catalog(dropna_all(read_csv(file.rows)))]]

\* ------------------------------------------------------------------
\* transform_reviews
\* ------------------------------------------------------------------
\* Lines 116-123: one source file as a frame with the internal column names.
read_source(i, file) ==
    IF i = 1
    THEN with_app_name([j \in 1..Len(file.rows) |->
                           rename_row(file.rows[j], [appId |-> "app_id"])])
    ELSE with_app_name(normalize_csv_schema(dropna_all(read_csv(file.rows))))

\* Lines 112-113: the files that exist, in declaration order.
RECURSIVE frames_from(_, _)
frames_from(i, files) ==
    IF i > 4 THEN <<>>
    ELSE IF files[i].state = "missing" THEN frames_from(i + 1, files)
    ELSE <<read_source(i, files[i])>> \o frames_from(i + 1, files)

\* Line 126: pd.concat(all_dfs, ignore_index=True); idx is the new index.
concat(all_dfs) ==
    LET rows == ConcatAll(all_dfs)
    IN  [i \in 1..Len(rows) |->
            [idx |-> i, app_id |-> rows[i].app_id, app_name |-> rows[i].app_name,
             reviewId |-> rows[i].reviewId, score |-> rows[i].score, at |-> rows[i].at]]

\* Lines 129-132: timestamps and scores coerced.
coerce(df) ==
    [i \in 1..Len(df) |->
        [idx |-> df[i].idx, app_id |-> df[i].app_id, app_name |-> df[i].app_name,
         reviewId |-> df[i].reviewId, score |-> to_numeric(df[i].score),
         at |-> to_datetime(df[i].at)]]

\* Lines 137-140: the filter.
valid(r) == r.at.ok /\ between_1_5(r.score)

\* Line 145: left join on app_id = appId, the review rows in their order, one
\* output row per matching catalog row, one with a missing title when none
\* matches; pandas matches a missing key with a missing key.
RECURSIVE left_merge(_, _)
left_merge(left, right) ==
    IF left = <<>> THEN <<>>
    ELSE LET l == Head(left)
             Match(c) == c.appId = l.app_id
             hits == SelectSeq(right, Match)
             joined == IF hits = <<>>
                       THEN <<[row |-> l, title |-> NA]>>
                       ELSE [k \in 1..Len(hits) |-> [row |-> l, title |-> hits[k].title]]
         IN  joined \o left_merge(Tail(left), right)

\* Line 146: df["title"].fillna(df["app_name"]).
fillna(title, app_name) == IF title # NA THEN title ELSE app_name

\* Lines 146-151: app_name resolved, score as int, the output columns.
enrich(joined) ==
    [i \in 1..Len(joined) |->
        [idx |-> joined[i].row.idx,
         app_id |-> joined[i].row.app_id,
         app_name |-> fillna(joined[i].title, joined[i].row.app_name),
         reviewId |-> joined[i].row.reviewId,
         score |-> astype_int(joined[i].row.score),
         at |-> joined[i].row.at.t]]

\* The whole of transform_reviews(apps_df): the exception it ends with, if any,
\* and the tables it builds.
transform_reviews(files, apps) ==
    LET zero == \E i \in Sources : files[i].state = "zero"
        all_dfs == frames_from(1, files)
        df == concat(all_dfs)
        kept == SelectSeq(coerce(df), valid)
        dd == drop_duplicates(kept, "reviewId")
    IN  CASE zero ->
                 [raised |-> "EmptyDataError", merged |-> <<>>, deduped |-> <<>>,
                  final |-> <<>>]
          [] ~zero /\ all_dfs = <<>> ->
                 [raised |-> "ValueError", merged |-> <<>>, deduped |-> <<>>,
                  final |-> <<>>]
          [] ~zero /\ all_dfs # <<>> /\ ~apps.has_cols ->
                 [raised |-> "KeyError", merged |-> df, deduped |-> dd, final |-> <<>>]
          [] OTHER ->
                 [raised |-> "", merged |-> df, deduped |-> dd,
                  final |-> enrich(left_merge(dd, apps.rows))]

\* DataFrame.to_csv / pd.read_csv of the reconciled table (lines 152, 85-88).
score_text(n) ==
    CASE n = 1 -> "1" [] n = 2 -> "2" [] n = 3 -> "3" [] n = 4 -> "4"
      [] n = 5 -> "5" [] OTHER -> "0"

to_csv(df) ==
    [i \in 1..Len(df) |->
        [idx |-> df[i].idx,
         app_id |-> to_csv_cell(df[i].app_id),
         app_name |-> to_csv_cell(df[i].app_name),
         reviewId |-> to_csv_cell(df[i].reviewId),
         score |-> score_text(df[i].score),
         at |-> timestamp_text(df[i].at)]]

load_reviews(rows) ==
    [i \in 1..Len(rows) |->
        [idx |-> rows[i].idx,
         app_id |-> read_csv_cell(rows[i].app_id),
         app_name |-> read_csv_cell(rows[i].app_name),
         reviewId |-> read_csv_cell(rows[i].reviewId),
         score |-> to_numeric(rows[i].score).v \div 10,
         at |-> to_datetime(rows[i].at).t]]

\* ------------------------------------------------------------------
\* Aggregation (serving_layer.py)
\* ------------------------------------------------------------------
RECURSIVE SumScore(_)
SumScore(rows) == IF rows = <<>> THEN 0 ELSE Head(rows).score + SumScore(Tail(rows))

\* 'count' of a column: the cells that are not missing.
count_reviewId(rows) ==
    LET Present(r) == r.reviewId # NA IN Len(SelectSeq(rows, Present))

\* lambda x: (x <= 2).sum()
low_rating_count(rows) ==
    LET Low(r) == r.score <= 2 IN Len(SelectSeq(rows, Low))

\* round(2) of num/den, kept in hundredths: nearest, a tie to the even digit.
round_div(num, den) ==
    LET q == num \div den
        r == num % den
    IN  IF 2 * r < den THEN q
        ELSE IF 2 * r > den THEN q + 1
        ELSE IF q % 2 = 0 THEN q ELSE q + 1

\* Lines 36-38: low_rating_count / num_reviews * 100, float division: x/0 is
\* inf and 0/0 is NaN, no exception.
pct_low_rating(low, num) ==
    IF num > 0 THEN [kind |-> "num", v |-> round_div(low * 10000, num)]
    ELSE IF low > 0 THEN [kind |-> "inf", v |-> 0]
    ELSE [kind |-> "nan", v |-> 0]

\* groupby(['app_id', 'app_name']): groups of the rows whose two keys are both
\* present (groupby drops missing keys); one output row per group.
generate_app_level_kpis(df) ==
    LET keys == {<<df[i].app_id, df[i].app_name>> : i \in 1..Len(df)}
        groups == {k \in keys : k[1] # NA /\ k[2] # NA}
        Rows(k) == LET In(r) == r.app_id = k[1] /\ r.app_name = k[2]
                   IN  SelectSeq(df, In)
    IN  {[app_id |-> k[1], app_name |-> k[2],
          num_reviews |-> count_reviewId(Rows(k)),
          avg_rating |-> round_div(SumScore(Rows(k)) * 100, Len(Rows(k))),
          pct_low_rating |-> pct_low_rating(low_rating_count(Rows(k)),
                                            count_reviewId(Rows(k)))] : k \in groups}

RECURSIVE SortedSeq(_)
SortedSeq(S) ==
    IF S = {} THEN <<>>
    ELSE LET m == CHOOSE x \in S : \A y \in S : x <= y
         IN  <<m>> \o SortedSeq(S \ {m})

\* Lines 55-68: one row per calendar date, ascending.
generate_daily_metrics(df) ==
    LET dates == SortedSeq({dt_date(df[i].at) : i \in 1..Len(df)})
        Rows(d) == LET On(r) == dt_date(r.at) = d IN SelectSeq(df, On)
    IN  [j \in 1..Len(dates) |->
            [date |-> dates[j],
             daily_num_reviews |-> count_reviewId(Rows(dates[j])),
             daily_avg_rating |-> round_div(SumScore(Rows(dates[j])) * 100,
                                            Len(Rows(dates[j])))]]

\* ------------------------------------------------------------------
\* dashboard.py
\* ------------------------------------------------------------------
\* Line 35: pd.to_datetime of the date column read back from the daily file:
\* the Timestamp at midnight of that day, in hours.
date_timestamp(d) == d * 24

\* load_data(), lines 30-39: both files read, the date column parsed;
\* (None, None) when either file is not there.
load_data(kpis, daily) ==
    IF ~kpis.exists \/ ~daily.exists
    THEN [found |-> FALSE, app_kpis |-> {}, daily_metrics |-> <<>>]
    ELSE [found |-> TRUE, app_kpis |-> kpis.rows,
          daily_metrics |->
              [j \in 1..Len(daily.rows) |->
                  [date |-> date_timestamp(daily.rows[j].date),
                   daily_num_reviews |-> daily.rows[j].daily_num_reviews,
                   daily_avg_rating |-> daily.rows[j].daily_avg_rating]]]

\* Line 109: sort_values('date'), ascending; rows of equal date keep their order.
RECURSIVE sort_values(_)
sort_values(df) ==
    IF df = <<>> THEN <<>>
    ELSE LET rest == sort_values(SubSeq(df, 1, Len(df) - 1))
             last == df[Len(df)]
             Before(r) == r.date <= last.date
             After(r) == r.date > last.date
         IN  SelectSeq(rest, Before) \o <<last>> \o SelectSeq(rest, After)

\* Line 110: rolling(window=7, min_periods=1).
Window == 7
MinPeriods == 1

RECURSIVE SumRating(_)
SumRating(rows) ==
    IF rows = <<>> THEN 0 ELSE Head(rows).daily_avg_rating + SumRating(Tail(rows))

\* The window taken over the calendar days date-6 .. date instead of over rows.
MutRollingCalendarDays(df, i) ==
    LET InDays(r) == r.date <= df[i].date /\ r.date > df[i].date - Window * 24
        win == SelectSeq(df, InDays)
    IN  IF Len(win) >= MinPeriods
        THEN [ok |-> TRUE, num |-> SumRating(win), den |-> Len(win)]
        ELSE [ok |-> FALSE, num |-> 0, den |-> 1]

\* Line 110: .rolling(window=7, min_periods=1).mean() at row i of the sorted
\* frame: the mean of daily_avg_rating over the last Window rows ending at i,
\* fewer at the head of the series, kept exact as the fraction num/den (num in
\* hundredths); NaN (ok FALSE) below MinPeriods observations.
rolling_mean(df, i) ==
    LET lo == IF i - Window + 1 > 1 THEN i - Window + 1 ELSE 1
        win == SubSeq(df, lo, i)
    IN  IF Len(win) >= MinPeriods
        THEN [ok |-> TRUE, num |-> SumRating(win), den |-> Len(win)]
        ELSE [ok |-> FALSE, num |-> 0, den |-> 1]

\* Lines 109-110: the sorted copy with its rating_7day_ma column.
with_rating_7day_ma(daily_metrics) ==
    LET sorted == sort_values(daily_metrics)
    IN  [i \in 1..Len(sorted) |->
            [date |-> sorted[i].date,
             daily_num_reviews |-> sorted[i].daily_num_reviews,
             daily_avg_rating |-> sorted[i].daily_avg_rating,
             rating_7day_ma |-> rolling_mean(sorted, i)]]

\* ------------------------------------------------------------------
\* Explored inputs
\* ------------------------------------------------------------------
\* A review is drawn as [app, name, rid, score, at] and written in the schema
\* of the file it is placed in.  rid "#" stands for an id of its own ("r1",
\* "r2", ... by position).  Missing cells: null in the JSONL file, an empty
\* field in the batch2 and drift files, the text NULL in the dirty file.
T1 == "2024-01-01 10:00:00"
T1b == "2024-01-01 23:00:00"
T2 == "01/02/2024 09:00"

rid_at(j) == CASE j = 1 -> "r1" [] j = 2 -> "r2" [] j = 3 -> "r3" [] j = 4 -> "r4"
               [] OTHER -> "r5"

cell(i, v) == IF v # NA THEN v ELSE IF i = 1 THEN NA ELSE IF i = 4 THEN "NULL" ELSE ""

encode(i, k) ==
    CASE i = 1 -> [appId |-> k.app, reviewId |-> k.rid, score |-> k.score, at |-> k.at]
      [] i = 2 -> [app_id |-> cell(i, k.app), app_name |-> cell(i, k.name),
                   reviewId |-> cell(i, k.rid), score |-> k.score, at |-> k.at]
      [] i = 3 -> [appId |-> cell(i, k.app), appTitle |-> cell(i, k.name),
                   review_id |-> cell(i, k.rid), rating |-> k.score,
                   review_time |-> k.at]
      [] OTHER -> [appId |-> cell(i, k.app), review_id |-> cell(i, k.rid),
                   rating |-> k.score, review_time |-> k.at]

\* The placements of at most n reviews, files in declaration order.
Placements(n, SK) ==
    UNION {{p \in [1..m -> SK] : \A j \in 1..(m - 1) : p[j][1] <= p[j + 1][1]} : m \in 0..n}

\* The review files holding placement p; a file outside `present` is missing,
\* and so is the JSONL file when no review is placed in it.
files_of(p, present) ==
    LET q == [j \in 1..Len(p) |->
                 [src |-> p[j][1],
                  k |-> [app |-> p[j][2].app, name |-> p[j][2].name,
                         rid |-> IF p[j][2].rid = "#" THEN rid_at(j) ELSE p[j][2].rid,
                         score |-> p[j][2].score, at |-> p[j][2].at]]]
        RowsOf(i) == LET In(e) == e.src = i
                         mine == SelectSeq(q, In)
                     IN  [j \in 1..Len(mine) |-> encode(i, mine[j].k)]
    IN  [i \in Sources |->
            IF i \notin present \/ (i = 1 /\ RowsOf(i) = <<>>)
            THEN [state |-> "missing", rows |-> <<>>]
            ELSE [state |-> "ok", rows |-> RowsOf(i)]]

cat_row(appId, title) == [appId |-> appId, title |-> title, installs |-> "1,000+"]

OneAppCatalog == [state |-> "ok", rows |-> <<cat_row("a", "Notes")>>]

\* A raw catalog that lists the app twice.
RepeatedAppCatalog ==
    [state |-> "ok", rows |-> <<cat_row("a", "Notes"), cat_row("a", "Notes 2")>>]

\* Validity and deduplication: ids that repeat, scores in range, fractional,
\* out of range and not numeric, timestamps that parse or not, over the JSONL
\* file and the drift file.
QualityInputs ==
    LET kinds == [app : {"a"}, name : {NA}, rid : {"r1", "r2"},
                  score : {"1", "4.5", "6", "abc"}, at : {T1, "not-a-date"}]
    IN  {[meta |-> RepeatedAppCatalog, files |-> files_of(p, {1, 3})] :
            p \in Placements(MaxReviews, {1, 3} \X kinds)}

\* Enrichment: every catalog of at most MaxCat rows over a present or missing
\* appId and title, reviews with and without app_id and source app_name.
JoinInputs ==
    LET catRows == {cat_row(a, t) : a \in {"a", ""}, t \in {"Notes", ""}}
        cats == UNION {[1..m -> catRows] : m \in 0..MaxCat}
        kinds == [app : {"a", "b", NA}, name : {"n", NA}, rid : {"#"}, score : {"5"},
                  at : {T1}]
        places == Placements(MaxReviews, {3} \X kinds)
    IN  {[meta |-> [state |-> "ok", rows |-> c], files |-> files_of(p, {3})] :
            c \in cats, p \in places}

\* Aggregation: two apps (one outside the catalog), ids present or missing,
\* low and high scores, two days, over the JSONL file and the dirty file.
AggregateInputs ==
    LET kinds == [app : {"a", "b"}, name : {NA}, rid : {"#", NA}, score : {"1", "5"},
                  at : {T1, T2}]
    IN  {[meta |-> OneAppCatalog, files |-> files_of(p, {1, 4})] :
            p \in Placements(MaxReviews, {1, 4} \X kinds)}

\* Presence: every configured input missing, of zero bytes (the CSV files),
\* holding only its header, or holding one review.
PresenceInputs ==
    LET k(i) == [app |-> "a", name |-> NA, rid |-> rid_at(i), score |-> "5", at |-> T1]
        States(i) ==
            {[state |-> "missing", rows |-> <<>>], [state |-> "ok", rows |-> <<encode(i, k(i))>>]}
            \cup (IF i = 1 THEN {}
                  ELSE {[state |-> "zero", rows |-> <<>>], [state |-> "ok", rows |-> <<>>]})
        metas == {[state |-> "missing", rows |-> <<>>], [state |-> "zero", rows |-> <<>>],
                  OneAppCatalog}
    IN  {[meta |-> m, files |-> f] :
            m \in metas, f \in {g \in [Sources -> UNION {States(i) : i \in Sources}] :
                                   \A i \in Sources : g[i] \in States(i)}}

\* The scenarios of the specification's section 8.
ScenarioInputs ==
    LET k(app, rid, score, at) ==
            [app |-> app, name |-> NA, rid |-> rid, score |-> score, at |-> at]
    IN  {[meta |-> OneAppCatalog,
          files |-> files_of(<<<<1, k("a", "#", "1", T1)>>, <<1, k("a", "#", "1", T1b)>>,
                               <<1, k("a", "#", "2", T2)>>, <<1, k("a", "#", "5", T2)>>>>,
                             {1})],
         [meta |-> OneAppCatalog,
          files |-> files_of(<<<<1, k("a", "r1", "2", T1)>>, <<4, k("a", "r1", "5", T2)>>>>,
                             {1, 4})],
         [meta |-> OneAppCatalog,
          files |-> files_of(<<<<3, k("a", "#", "6", T1)>>, <<3, k("a", "#", "5", "not-a-date")>>,
                               <<3, k("a", "#", "4", T2)>>>>, {3})]}

\* Daily series: one review a day over the first m series days, m up to
\* SeriesLen, scored 1 or 5, written to the JSONL file latest day first.
SeriesIds == <<"d01", "d02", "d03", "d04", "d05", "d06", "d07", "d08", "d09", "d10",
               "d11", "d12">>

SeriesInputs ==
    LET rows(sc) ==
            [j \in 1..Len(sc) |->
                encode(1, [app |-> "a", name |-> NA, rid |-> SeriesIds[Len(sc) + 1 - j],
                           score |-> sc[Len(sc) + 1 - j],
                           at |-> SeriesStamps[Len(sc) + 1 - j]])]
        files(sc) == [i \in Sources |->
                        IF i = 1 THEN [state |-> "ok", rows |-> rows(sc)]
                        ELSE [state |-> "missing", rows |-> <<>>]]
    IN  {[meta |-> OneAppCatalog, files |-> files(sc)] :
            sc \in UNION {[1..m -> {"1", "5"}] : m \in 1..SeriesLen}}

\* ------------------------------------------------------------------
\* The run
\* ------------------------------------------------------------------
NoKpis == [exists |-> FALSE, rows |-> {}]

\* The pipeline has run to its end, by return or by exception.
Ended == pc \in {"serving_done", "serving_noinput", "serving_aborted"}

\* The state before a run on input inp: nothing processed, no output file.
Start(inp) ==
    /\ meta_file = inp.meta
    /\ review_files = inp.files
    /\ pc = "start"
    /\ error = ""
    /\ apps_df = [has_cols |-> FALSE, rows |-> <<>>]
    /\ merged = <<>>
    /\ deduped = <<>>
    /\ final_df = <<>>
    /\ reviews_csv = NoFile
    /\ reviews_df = <<>>
    /\ app_kpis_csv = NoKpis
    /\ daily_metrics_csv = NoFile
    /\ daily_metrics_sorted = <<>>

Init ==
    \/ \E inp \in QualityInputs : Start(inp)
    \/ \E inp \in JoinInputs : Start(inp)
    \/ \E inp \in AggregateInputs : Start(inp)
    \/ \E inp \in PresenceInputs : Start(inp)
    \/ \E inp \in ScenarioInputs : Start(inp)
    \/ \E inp \in SeriesInputs : Start(inp)

\* transform main(), line 157.
TransformAppsMetadata ==
    /\ pc = "start"
    /\ LET res == apps_metadata(meta_file)
       IN  /\ apps_df' = res.df
           /\ error' = res.raised
           /\ pc' = IF res.raised = "" THEN "meta_done" ELSE "transform_aborted"
    /\ UNCHANGED <<meta_file, review_files, merged, deduped, final_df, reviews_csv,
                   reviews_df, app_kpis_csv, daily_metrics_csv,
                   daily_metrics_sorted>>

\* transform main(), line 158: transform_reviews(apps_df), which writes
\* REVIEWS_PROCESSED_PATH (line 152) unless an exception ends it first.
TransformReviews ==
    /\ pc = "meta_done"
    /\ LET res == transform_reviews(review_files, apps_df)
       IN  /\ merged' = res.merged
           /\ deduped' = res.deduped
           /\ final_df' = res.final
           /\ error' = res.raised
           /\ reviews_csv' = IF res.raised = ""
                             THEN [exists |-> TRUE, rows |-> to_csv(res.final)]
                             ELSE reviews_csv
           /\ pc' = IF res.raised = "" THEN "transform_done" ELSE "transform_aborted"
    /\ UNCHANGED <<meta_file, review_files, apps_df, reviews_df, app_kpis_csv,
                   daily_metrics_csv,
                   daily_metrics_sorted>>

\* serving main(), lines 79-82: nothing to read, return.
ServingNoInput ==
    /\ pc \in {"transform_done", "transform_aborted"}
    /\ ~reviews_csv.exists
    /\ pc' = "serving_noinput"
    /\ UNCHANGED <<meta_file, review_files, error, apps_df, merged, deduped, final_df,
                   reviews_csv, reviews_df, app_kpis_csv, daily_metrics_csv,
                   daily_metrics_sorted>>

\* serving main(), lines 84-90.
ServingLoad ==
    /\ pc \in {"transform_done", "transform_aborted"}
    /\ reviews_csv.exists
    /\ reviews_df' = load_reviews(reviews_csv.rows)
    /\ pc' = "loaded"
    /\ UNCHANGED <<meta_file, review_files, error, apps_df, merged, deduped, final_df,
                   reviews_csv, app_kpis_csv, daily_metrics_csv,
                   daily_metrics_sorted>>

\* serving main(), lines 92-96.
ServingWriteKpis ==
    /\ pc = "loaded"
    /\ app_kpis_csv' = [exists |-> TRUE, rows |-> generate_app_level_kpis(reviews_df)]
    /\ pc' = "kpis_written"
    /\ UNCHANGED <<meta_file, review_files, error, apps_df, merged, deduped, final_df,
                   reviews_csv, reviews_df, daily_metrics_csv,
                   daily_metrics_sorted>>

\* serving main(), lines 98-102.
ServingWriteDaily ==
    /\ pc = "kpis_written"
    /\ daily_metrics_csv' = [exists |-> TRUE, rows |-> generate_daily_metrics(reviews_df)]
    /\ pc' = "serving_done"
    /\ UNCHANGED <<meta_file, review_files, error, apps_df, merged, deduped, final_df,
                   reviews_csv, reviews_df, app_kpis_csv,
                   daily_metrics_sorted>>

\* serving main() has no handler and writes its two files one after the other
\* in place: a step that raises (to_csv on a path that cannot be written) ends
\* the run where it stands.
ServingStepRaises ==
    /\ pc \in {"loaded", "kpis_written"}
    /\ error' = "OSError"
    /\ pc' = "serving_aborted"
    /\ UNCHANGED <<meta_file, review_files, apps_df, merged, deduped, final_df,
                   reviews_csv, reviews_df, app_kpis_csv, daily_metrics_csv,
                   daily_metrics_sorted>>

\* dashboard.py lines 45-47 with load_data() lines 37-39: a file is not there,
\* the error is shown and no section is drawn.
DashboardNoData ==
    /\ Ended
    /\ ~load_data(app_kpis_csv, daily_metrics_csv).found
    /\ pc' = "dashboard_error"
    /\ UNCHANGED <<meta_file, review_files, error, apps_df, merged, deduped, final_df,
                   reviews_csv, reviews_df, app_kpis_csv, daily_metrics_csv,
                   daily_metrics_sorted>>

\* dashboard.py line 59: the date range of a daily table without rows is
\* NaT, and NaT.strftime raises; the script stops before the trend section.
DashboardRaises ==
    /\ Ended
    /\ load_data(app_kpis_csv, daily_metrics_csv).found
    /\ load_data(app_kpis_csv, daily_metrics_csv).daily_metrics = <<>>
    /\ error' = "ValueError"
    /\ pc' = "dashboard_aborted"
    /\ UNCHANGED <<meta_file, review_files, apps_df, merged, deduped, final_df,
                   reviews_csv, reviews_df, app_kpis_csv, daily_metrics_csv,
                   daily_metrics_sorted>>

\* dashboard.py lines 45-146: the sections are drawn; lines 109-110 build
\* daily_metrics_sorted.
DashboardRender ==
    /\ Ended
    /\ load_data(app_kpis_csv, daily_metrics_csv).found
    /\ load_data(app_kpis_csv, daily_metrics_csv).daily_metrics # <<>>
    /\ daily_metrics_sorted' =
           with_rating_7day_ma(load_data(app_kpis_csv, daily_metrics_csv).daily_metrics)
    /\ pc' = "dashboard_shown"
    /\ UNCHANGED <<meta_file, review_files, error, apps_df, merged, deduped, final_df,
                   reviews_csv, reviews_df, app_kpis_csv, daily_metrics_csv>>

Next ==
    \/ TransformAppsMetadata
    \/ TransformReviews
    \/ ServingNoInput
    \/ ServingLoad
    \/ ServingWriteKpis
    \/ ServingWriteDaily
    \/ ServingStepRaises
    \/ DashboardNoData
    \/ DashboardRaises
    \/ DashboardRender

Spec == Init /\ [][Next]_vars

\* ------------------------------------------------------------------
\* Properties
\* ------------------------------------------------------------------
Parsed == coerce(merged)
ValidAt(i) == valid(Parsed[i])
FinalIdx == [i \in 1..Len(final_df) |-> final_df[i].idx]
DedupedIdx == [i \in 1..Len(deduped) |-> deduped[i].idx]
Usable(f) == f.state = "ok" /\ f.rows # <<>>

\* C1: no two rows of the reconciled review table returned by
\* transform_reviews carry the same reviewId.
C1_UniqueReviewId ==
    \A i, j \in 1..Len(final_df) :
        i # j => final_df[i].reviewId # final_df[j].reviewId

\* C1 witness: a completed transform whose merged table held two valid rows
\* with one reviewId while the raw catalog repeated the app's appId.
C1_Witness ==
    /\ pc = "transform_done"
    /\ Len(final_df) >= 1
    /\ \E i, j \in 1..Len(merged) :
          /\ i < j /\ ValidAt(i) /\ ValidAt(j)
          /\ merged[i].reviewId = merged[j].reviewId
    /\ \E a, b \in 1..Len(meta_file.rows) :
          a < b /\ meta_file.rows[a].appId = meta_file.rows[b].appId

C3_ValidRowsOnly ==
    /\ \A k \in 1..Len(final_df) :
          /\ final_df[k].score \in 1..5
          /\ to_datetime(merged[final_df[k].idx].at).ok
          /\ final_df[k].at = to_datetime(merged[final_df[k].idx].at).t
    /\ pc = "transform_done" =>
          \A i \in 1..Len(merged) :
              /\ (\/ ~to_numeric(merged[i].score).ok
                  \/ to_numeric(merged[i].score).v < 10
                  \/ to_numeric(merged[i].score).v > 50
                  \/ ~to_datetime(merged[i].at).ok)
                    => i \notin Range(FinalIdx)
              /\ ValidAt(i) => \E k \in 1..Len(final_df) :
                                  final_df[k].reviewId = merged[i].reviewId
    /\ pc = "transform_aborted" =>
          \/ meta_file.state # "ok"
          \/ \E i \in Sources : review_files[i].state = "zero"
          \/ \A i \in Sources : review_files[i].state = "missing"

\* C3 witness: the merged table held a row rated 6 and a row timed
\* "not-a-date", and a third row reached the reconciled table.
C3_Witness ==
    /\ pc = "transform_done"
    /\ Len(final_df) >= 1
    /\ \E i, j \in 1..Len(merged) :
          /\ merged[i].score = "6" /\ to_datetime(merged[i].at).ok
          /\ merged[j].at = "not-a-date" /\ between_1_5(to_numeric(merged[j].score))

\* C4: every reconciled row carries the numeric score its source supplied
\* (a score that is not one of 1..5 is excluded, never converted).
C4_ScoreAsSupplied ==
    pc = "transform_done" =>
        \A k \in 1..Len(final_df) :
            final_df[k].score * 10 = to_numeric(merged[final_df[k].idx].score).v

\* C5: app_name of a reconciled review is never missing: the catalog title of
\* its app_id when there is one, else the source's app_name, else "unknown".
C5_AppNameResolved ==
    pc = "transform_done" =>
        \A k \in 1..Len(final_df) :
            LET f == final_df[k]
                src == merged[f.idx]
                hit == {c \in Range(apps_df.rows) : c.appId = f.app_id /\ c.title # NA}
            IN  /\ f.app_name # NA
                /\ f.app_name = IF hit # {} THEN (CHOOSE c \in hit : TRUE).title
                                ELSE IF src.app_name # NA THEN src.app_name
                                ELSE "unknown"

\* C6: the enrichment join keeps the deduplicated reviews as they are, one
\* output row per review in the same order, each review matching at most one
\* row of the catalog.
C6_JoinKeepsRows ==
    pc = "transform_done" =>
        /\ FinalIdx = DedupedIdx
        /\ \A i \in 1..Len(deduped) :
              Cardinality({c \in 1..Len(apps_df.rows) :
                              apps_df.rows[c].appId = deduped[i].app_id}) <= 1

\* C6 witness: the raw catalog repeats an appId that a review carries, or
\* holds two rows without appId while a review has none, and the join ran.
C6_Witness ==
    /\ pc = "transform_done"
    /\ \E a, b \in 1..Len(meta_file.rows) : \E i \in 1..Len(deduped) :
          /\ a < b
          /\ meta_file.rows[a].appId = meta_file.rows[b].appId
          /\ read_csv_cell(meta_file.rows[a].appId) = deduped[i].app_id

RECURSIVE SumDaily(_)
SumDaily(rows) ==
    IF rows = <<>> THEN 0 ELSE Head(rows).daily_num_reviews + SumDaily(Tail(rows))

\* C7: for every app_id of the reconciled table the App KPI table gives
\* num_reviews equal to the number of reconciled reviews of that app_id, and
\* the daily_num_reviews of the Daily Metric table add up to the number of
\* reconciled reviews.
C7_AggregateConsistency ==
    pc = "serving_done" =>
        /\ \A a \in {final_df[i].app_id : i \in 1..Len(final_df)} :
              \E r \in app_kpis_csv.rows :
                  /\ r.app_id = a
                  /\ r.num_reviews =
                         Cardinality({i \in 1..Len(final_df) : final_df[i].app_id = a})
        /\ SumDaily(daily_metrics_csv.rows) = Len(final_df)

\* C8: once a run has ended, either both output tables have been written or
\* neither has.
C8_BothOrNeither ==
    Ended => (app_kpis_csv.exists <=> daily_metrics_csv.exists)

\* C9: a missing or empty input is not fatal: with at least one usable review
\* file, the transform is not ended by an exception.
C9_MissingInputSkipped ==
    (\E i \in Sources : Usable(review_files[i])) => pc # "transform_aborted"

\* C10: every row of the App KPI table has num_reviews >= 1 and a
\* pct_low_rating that is a number between 0 and 100 (kept in hundredths).
C10_PctLowRating ==
    \A r \in app_kpis_csv.rows :
        /\ r.num_reviews >= 1
        /\ r.pct_low_rating.kind = "num"
        /\ r.pct_low_rating.v \in 0..10000

\* The dates of the reconciled reviews, and of the Daily Metric table.
ReviewDates == {dt_date(final_df[i].at) : i \in 1..Len(final_df)}
DailyRows == daily_metrics_csv.rows

\* One row per calendar date of the reconciled reviews, ascending by date.
OneRowPerDateAscending ==
    /\ {DailyRows[j].date : j \in 1..Len(DailyRows)} = ReviewDates
    /\ \A j \in 1..(Len(DailyRows) - 1) : DailyRows[j].date < DailyRows[j + 1].date

\* The sum of daily_avg_rating over rows lo..hi of the Daily Metric table.
RECURSIVE AvgSum(_, _)
AvgSum(lo, hi) == IF lo > hi THEN 0 ELSE DailyRows[hi].daily_avg_rating + AvgSum(lo, hi - 1)

WindowStart(i) == IF i - 6 > 1 THEN i - 6 ELSE 1

\* The fraction m is the mean of daily_avg_rating over rows lo..hi.
IsMeanOfRows(m, lo, hi) == m.ok /\ m.num * (hi - lo + 1) = m.den * AvgSum(lo, hi)

====
